---- MODULE Spec2Model ----
(***************************************************************************)
(* Model of quantum_honeypot.py: the QuantumHoneypotModel cell, the        *)
(* TimelineCanvas sample/marker buffer, and the MainWindow handlers that   *)
(* the Qt event loop dispatches (button clicks, the check box signal, the  *)
(* spin box, the two QTimers and the modal intrusion alert).               *)
(***************************************************************************)
EXTENDS Integers, Sequences, FiniteSets, TLC

\* ------------------------------------------------------------------ bounds
\* TimelineCanvas(max_points=...): 400 in MainWindow, scaled down here.
max_points == 3
\* The elapsed wall clock, in thirds of a hundredth of a second, stops here.
MaxClock == 4
\* intrusion_times is an unbounded list in the source; on_intrusion is cut off here.
MaxMarkers == 2
\* The canvas harness records up to max_points + MaxOver markers after a clear.
MaxOver == 1
\* The canvas harness appends up to max_points + MaxExtra samples after a clear.
MaxExtra == 5

\* --------------------------------------------------------------- constants
QSTATES == {"|0>", "|1>", "|+>", "|->"}
MEASURE_OUTCOMES == {"0", "1"}
None == "None"
\* np.nan, the "unknown" value of a sample; the known values are 0 and 1.
np_nan == -1
\* interval_spin.setRange(1, 60); interval_spin.setValue(5)
SpinMinimum == 1
SpinMaximum == 60
SpinInitial == 5
\* ui_timer.setInterval(500)
UiInterval == 500
\* Values a caller hands to interval_spin.setValue: inside and outside the range.
SpinRequests == {SpinMinimum - 1, SpinMinimum, SpinMaximum + 1}

VARIABLES
    model,          \* QuantumHoneypotModel: quantum_state, collapsed, collapsed_value
    canvas,         \* TimelineCanvas: times, values (deques), intrusion_times (list)
    clock,          \* time.time() - start_time, in 1/300 s
    auto_checkbox,  \* QCheckBox: TRUE when checked
    interval_spin,  \* QSpinBox value
    ui_timer,       \* QTimer: [active, interval]
    auto_timer,     \* QTimer: [active, interval]
    alerts,         \* QMessageBox.warning dialogs open: on_intrusion calls not yet returned
    last,           \* the handler that ran last, what it saw and what its model call returned
    appended        \* canvas harness only: the (t, value) pairs appended since the last clear

vars == <<model, canvas, clock, auto_checkbox, interval_spin, ui_timer, auto_timer,
          alerts, last, appended>>

\* ------------------------------------------------------ Python / Qt values
\* A Python int and a member of the enum.Enum class Qt.CheckState are values of
\* different types; stateChanged(int) delivers the int.
PyInt(n) == [type |-> "int", value |-> n]
CheckState(n) == [type |-> "Qt.CheckState", value |-> n]
Qt_CheckState_Unchecked == CheckState(0)
Qt_CheckState_Checked == CheckState(2)
\* a == b: an enum.Enum member equals only itself, never an int of the same value.
py_eq(a, b) == a = b
\* The argument QCheckBox.stateChanged(int) carries for the new check state.
stateChanged_arg(checked) == PyInt(IF checked THEN Qt_CheckState_Checked.value
                                              ELSE Qt_CheckState_Unchecked.value)

\* int("0") = 0, int("1") = 1; int(None) raises, and is never evaluated by the code.
int_(s) == CASE s = "0" -> 0 [] s = "1" -> 1

\* round(x, 2) of a clock counted in thirds of a hundredth: to the nearest hundredth.
round_2(c) == (c + 1) \div 3
_current_time(c) == round_2(c)

interval_spin_unbounded(x) == x

\* QSpinBox.setValue with range [SpinMinimum, SpinMaximum]: bound to the range.
interval_spin_bound(x) ==
    IF x < SpinMinimum THEN SpinMinimum
    ELSE IF x > SpinMaximum THEN SpinMaximum ELSE x

\* ---------------------------------------------------- QuantumHoneypotModel
reset(q) == [quantum_state |-> q, collapsed |-> FALSE, collapsed_value |-> None]

measure_no_store(m, draw) ==
    IF ~m.collapsed
    THEN [model |-> [m EXCEPT !.collapsed = TRUE], ret |-> draw]
    ELSE [model |-> m, ret |-> m.collapsed_value]

measure_redraw(m, draw) ==
    [model |-> [m EXCEPT !.collapsed_value = draw, !.collapsed = TRUE], ret |-> draw]

\* measure(): draw is random.choice(MEASURE_OUTCOMES), used only when not collapsed.
measure(m, draw) ==
    IF ~m.collapsed
    THEN [model |-> [m EXCEPT !.collapsed_value = draw, !.collapsed = TRUE],
          ret |-> draw]
    ELSE [model |-> m, ret |-> m.collapsed_value]

intrusion_attempt(m, draw) ==
    IF ~m.collapsed
    THEN LET r == measure(m, draw)
         IN [model |-> r.model, measured_now |-> TRUE, outcome |-> r.ret]
    ELSE [model |-> m, measured_now |-> FALSE, outcome |-> m.collapsed_value]

\* ----------------------------------------------------------- TimelineCanvas
deque_append_unbounded(d, x, maxlen) == Append(d, x)

deque_appendleft(d, x, maxlen) ==
    IF maxlen = 0 THEN d
    ELSE IF Len(d) >= maxlen THEN <<x>> \o SubSeq(d, 1, Len(d) - 1) ELSE <<x>> \o d

\* collections.deque(maxlen=...).append: the oldest element leaves a full deque.
deque_append(d, x, maxlen) ==
    IF maxlen = 0 THEN d
    ELSE IF Len(d) >= maxlen THEN Append(Tail(d), x) ELSE Append(d, x)

clear_keeps_samples(c) == [c EXCEPT !.intrusion_times = <<>>]

clear_keeps_markers(c) == [times |-> <<>>, values |-> <<>>,
                           intrusion_times |-> c.intrusion_times]

clear(c) == [times |-> <<>>, values |-> <<>>, intrusion_times |-> <<>>]

append(c, t, value) ==
    [c EXCEPT !.times = deque_append(c.times, t, max_points),
              !.values = deque_append(c.values, value, max_points)]

mark_intrusion_dropped(c, t, value_at_t) == c

mark_intrusion_bounded(c, t, value_at_t) ==
    [c EXCEPT !.intrusion_times =
        deque_append(c.intrusion_times, <<t, value_at_t>>, max_points)]

mark_intrusion_unknown(c, t, value_at_t) ==
    [c EXCEPT !.intrusion_times = Append(c.intrusion_times, <<t, np_nan>>)]

mark_intrusion(c, t, value_at_t) ==
    [c EXCEPT !.intrusion_times = Append(c.intrusion_times, <<t, value_at_t>>)]

_append_graph_twice(c, now, value) ==
    append(append(c, _current_time(now), value), _current_time(now), value)

_append_graph(c, now, value) == append(c, _current_time(now), value)

\* ------------------------------------------------------------------- state
Ran(op, depth, was, flag, outcome, arg) ==
    [op |-> op, depth |-> depth, was_collapsed |-> was, measured_now |-> flag,
     outcome |-> outcome, arg |-> arg, error |-> None]

\* MainWindow.__init__, then app.exec() takes over.
Init ==
    /\ \E q \in QSTATES : model = reset(q)
    /\ clock = 0
    /\ canvas = _append_graph(clear([times |-> <<>>, values |-> <<>>,
                                     intrusion_times |-> <<>>]), 0, np_nan)
    /\ auto_checkbox = FALSE
    /\ interval_spin = interval_spin_bound(SpinInitial)
    /\ ui_timer = [active |-> TRUE, interval |-> UiInterval]
    /\ auto_timer = [active |-> FALSE, interval |-> 0]
    /\ alerts = 0
    /\ last = Ran("__init__", 0, FALSE, FALSE, None, 0)
    /\ appended = <<>>

\* ---------------------------------------------------------------- handlers
on_measure ==
    \E draw \in MEASURE_OUTCOMES :
        LET r == measure(model, draw) IN
        /\ model' = r.model
        /\ canvas' = _append_graph(canvas, clock, int_(r.ret))
        /\ last' = Ran("on_measure", alerts, model.collapsed, FALSE, r.ret, 0)
        /\ UNCHANGED <<clock, auto_checkbox, interval_spin, ui_timer, auto_timer,
                       alerts, appended>>

\* on_intrusion up to and including the opening of QMessageBox.warning, whose exec()
\* runs a nested event loop; the call returns in alert_closed. d is the time the
\* handler takes between its two readings of the clock.
on_intrusion(source) ==
    /\ Len(canvas.intrusion_times) < MaxMarkers
    /\ \E draw \in MEASURE_OUTCOMES, d \in 0..1 :
        LET r == intrusion_attempt(model, draw)
            t == _current_time(clock)
            marked == mark_intrusion(canvas, t, int_(r.outcome))
        IN
        /\ clock + d <= MaxClock
        /\ model' = r.model
        /\ clock' = clock + d
        /\ canvas' = IF r.measured_now
                     THEN _append_graph(marked, clock + d, int_(r.outcome))
                     ELSE marked
        /\ alerts' = alerts + 1
        /\ last' = Ran(source, alerts, model.collapsed, r.measured_now, r.outcome, 0)
        /\ UNCHANGED <<auto_checkbox, interval_spin, ui_timer, auto_timer, appended>>

\* The user dismisses the topmost alert: QMessageBox.warning and on_intrusion return.
alert_closed ==
    /\ alerts > 0
    /\ alerts' = alerts - 1
    /\ last' = Ran("alert_closed", alerts, model.collapsed, FALSE, None, 0)
    /\ UNCHANGED <<model, canvas, clock, auto_checkbox, interval_spin, ui_timer,
                   auto_timer, appended>>

on_reset ==
    /\ \E q \in QSTATES : model' = reset(q)
    /\ canvas' = _append_graph(clear(canvas), clock, np_nan)
    /\ last' = Ran("on_reset", alerts, model.collapsed, FALSE, None, 0)
    /\ UNCHANGED <<clock, auto_checkbox, interval_spin, ui_timer, auto_timer,
                   alerts, appended>>

on_auto_changed_stops_ui(state) ==
    /\ IF py_eq(state, Qt_CheckState_Checked)
       THEN /\ auto_timer' = [active |-> TRUE, interval |-> interval_spin * 1000]
            /\ ui_timer' = ui_timer
       ELSE /\ auto_timer' = [auto_timer EXCEPT !.active = FALSE]
            /\ ui_timer' = [ui_timer EXCEPT !.active = FALSE]
    /\ last' = Ran("on_auto_changed", alerts, model.collapsed, FALSE, None, state.value)
    /\ UNCHANGED <<model, canvas, clock, interval_spin, alerts, appended>>

on_auto_changed(state) ==
    /\ IF py_eq(state, Qt_CheckState_Checked)
       THEN auto_timer' = [active |-> TRUE, interval |-> interval_spin * 1000]
       ELSE auto_timer' = [auto_timer EXCEPT !.active = FALSE]
    /\ last' = Ran("on_auto_changed", alerts, model.collapsed, FALSE, None, state.value)
    /\ UNCHANGED <<model, canvas, clock, interval_spin, ui_timer, alerts, appended>>

_ui_tick_always_unknown ==
    /\ canvas' = _append_graph(canvas, clock, np_nan)
    /\ last' = Ran("_ui_tick", alerts, model.collapsed, FALSE, None, 0)
    /\ UNCHANGED <<model, clock, auto_checkbox, interval_spin, ui_timer, auto_timer,
                   alerts, appended>>

_ui_tick ==
    LET val == IF model.collapsed THEN int_(model.collapsed_value) ELSE np_nan IN
    /\ canvas' = _append_graph(canvas, clock, val)
    /\ last' = Ran("_ui_tick", alerts, model.collapsed, FALSE, None, 0)
    /\ UNCHANGED <<model, clock, auto_checkbox, interval_spin, ui_timer, auto_timer,
                   alerts, appended>>

\* --------------------------------------------------- what the event loop runs
\* An open QMessageBox is modal: the main window's widgets take no input until it
\* is closed, while the timers of the application go on firing.
InputEnabled == alerts = 0

measure_btn_clicked == InputEnabled /\ on_measure

intrude_btn_clicked == InputEnabled /\ on_intrusion("intrude_btn")

reset_btn_clicked == InputEnabled /\ on_reset

\* The user toggles the check box; it emits stateChanged with the new state.
auto_checkbox_toggled ==
    /\ InputEnabled
    /\ auto_checkbox' = ~auto_checkbox
    /\ on_auto_changed(stateChanged_arg(~auto_checkbox))

\* interval_spin.setValue(x); no slot is connected to the spin box.
interval_spin_setValue(x) ==
    /\ InputEnabled
    /\ interval_spin' = interval_spin_bound(x)
    /\ last' = Ran("setValue", alerts, model.collapsed, FALSE, None, x)
    /\ UNCHANGED <<model, canvas, clock, auto_checkbox, ui_timer, auto_timer,
                   alerts, appended>>

Timers == {"ui_timer", "auto_timer"}

\* QTimer.timeout of an active timer calls the slot connected to it.
timeout(tm) ==
    IF tm = "ui_timer"
    THEN ui_timer.active /\ _ui_tick
    ELSE auto_timer.active /\ on_intrusion("auto_timer")

time_passes ==
    /\ clock < MaxClock
    /\ clock' = clock + 1
    /\ last' = Ran("time_passes", alerts, model.collapsed, FALSE, None, 0)
    /\ UNCHANGED <<model, canvas, auto_checkbox, interval_spin, ui_timer, auto_timer,
                   alerts, appended>>

Next ==
    \/ measure_btn_clicked
    \/ intrude_btn_clicked
    \/ reset_btn_clicked
    \/ auto_checkbox_toggled
    \/ \E x \in SpinRequests : interval_spin_setValue(x)
    \/ \E tm \in Timers : timeout(tm)
    \/ alert_closed
    \/ time_passes

Spec == Init /\ [][Next]_vars

\* The event loop with its timers: an active QTimer does fire.
SpecLive ==
    /\ Init
    /\ [][Next]_vars
    /\ WF_vars(timeout("ui_timer"))
    /\ WF_vars(timeout("auto_timer"))

\* ------------------------------------------------- TimelineCanvas on its own
\* TimelineCanvas(max_points): clear and append called directly, with distinct
\* increasing timestamps (the number of the call since the last clear).
InitCanvas ==
    /\ \E q \in QSTATES : model = reset(q)
    /\ clock = 0
    /\ canvas = clear([times |-> <<>>, values |-> <<>>, intrusion_times |-> <<>>])
    /\ auto_checkbox = FALSE
    /\ interval_spin = interval_spin_bound(SpinInitial)
    /\ ui_timer = [active |-> FALSE, interval |-> 0]
    /\ auto_timer = [active |-> FALSE, interval |-> 0]
    /\ alerts = 0
    /\ last = Ran("TimelineCanvas", 0, FALSE, FALSE, None, 0)
    /\ appended = <<>>

SampleValues == {np_nan, 0, 1}

TimelineCanvas_clear ==
    /\ canvas' = clear(canvas)
    /\ appended' = <<>>
    /\ last' = Ran("clear", 0, FALSE, FALSE, None, 0)
    /\ UNCHANGED <<model, clock, auto_checkbox, interval_spin, ui_timer, auto_timer,
                   alerts>>

TimelineCanvas_append(value) ==
    /\ Len(appended) < max_points + MaxExtra
    /\ LET t == Len(appended) + 1 IN
        /\ canvas' = append(canvas, t, value)
        /\ appended' = Append(appended, <<t, value>>)
        /\ last' = Ran("append", 0, FALSE, FALSE, None, t)
    /\ UNCHANGED <<model, clock, auto_checkbox, interval_spin, ui_timer, auto_timer,
                   alerts>>

NextCanvas ==
    \/ TimelineCanvas_clear
    \/ \E value \in SampleValues : TimelineCanvas_append(value)

SpecCanvas == InitCanvas /\ [][NextCanvas]_vars

\* TimelineCanvas with append and mark_intrusion called in any order, the way
\* MainWindow calls them: known values only, a marker stamped with its number.
MarkerValues == {0, 1}

TimelineCanvas_mark_intrusion(value) ==
    /\ Len(canvas.intrusion_times) < max_points + MaxOver
    /\ LET t == Len(canvas.intrusion_times) + 1 IN
        /\ canvas' = mark_intrusion(canvas, t, value)
        /\ last' = Ran("mark_intrusion", 0, FALSE, FALSE, None, t)
    /\ UNCHANGED <<model, clock, auto_checkbox, interval_spin, ui_timer, auto_timer,
                   alerts, appended>>

NextMarks ==
    \/ TimelineCanvas_clear
    \/ \E value \in MarkerValues : TimelineCanvas_append(value)
    \/ \E value \in MarkerValues : TimelineCanvas_mark_intrusion(value)

SpecMarks == InitCanvas /\ [][NextMarks]_vars

\* ------------------------------------------------------------------ claims
IntrusionOps == {"intrude_btn", "auto_timer"}

\* new is old after one append of x to a collection that holds at most max_points.
Pushed(old, new, x) ==
    new = IF Len(old) < max_points THEN Append(old, x) ELSE Append(Tail(old), x)

\* C1: within one cell lifetime (no reset), once the cell is collapsed no step
\* changes quantum_state, collapsed or collapsed_value, and every measure or
\* intrusion_attempt returns the stored value (an intrusion with measured_now
\* False); a step on an uncollapsed cell either leaves the cell alone or is the
\* one collapse, which stores a binary outcome and keeps the pre-state label.
C1_CollapseOnce ==
    [][last'.op # "on_reset" =>
        IF model.collapsed
        THEN /\ model' = model
             /\ last'.op \in IntrusionOps \cup {"on_measure"} =>
                    /\ last'.outcome = model.collapsed_value
                    /\ ~last'.measured_now
        ELSE \/ model' = model
             \/ /\ model'.collapsed
                /\ model'.collapsed_value \in MEASURE_OUTCOMES
                /\ model'.quantum_state = model.quantum_state
                /\ last'.outcome = model'.collapsed_value]_vars

\* C1 witness: a measure call made on a cell that was already collapsed.
C1_Witness ==
    /\ last.op = "on_measure"
    /\ last.was_collapsed
    /\ last.outcome = model.collapsed_value

\* C2: collapsed_value is set if and only if collapsed is true, and a set value is
\* one of the two binary outcomes.
C2_ValueIffCollapsed ==
    /\ (model.collapsed_value # None) <=> model.collapsed
    /\ model.collapsed_value # None => model.collapsed_value \in MEASURE_OUTCOMES

\* C2 witness: a collapsed cell holding the outcome "1".
C2_Witness == model.collapsed /\ model.collapsed_value = "1"

\* C3: the canvas never holds more than max_points samples, and after n appends
\* since the last clear it holds exactly the last min(n, max_points) of them in the
\* order appended; after max_points + 5 appends the earliest one left is the 6th.
C3_BoundedFifo ==
    LET n == Len(appended)
        k == IF n > max_points THEN n - max_points ELSE 0
    IN  /\ Len(canvas.times) <= max_points
        /\ Len(canvas.values) <= max_points
        /\ Len(canvas.times) = n - k
        /\ Len(canvas.values) = n - k
        /\ \A i \in 1..(n - k) :
            /\ canvas.times[i] = appended[k + i][1]
            /\ canvas.values[i] = appended[k + i][2]
        /\ n = max_points + 5 => canvas.times[1] = 6

\* C3 witness: max_points + 5 samples appended, the 6th the earliest one held.
C3_Witness == Len(appended) = max_points + 5 /\ canvas.times[1] = 6

\* C4: every on_intrusion, from the button or the auto timer, records exactly one
\* marker and opens exactly one alert; on an uncollapsed cell it reports
\* (True, v) and appends exactly one sample of value v, on a collapsed cell it
\* reports (False, stored value) and leaves the samples alone.
C4_IntrusionEffect ==
    [][last'.op \in IntrusionOps =>
        /\ Len(canvas'.intrusion_times) = Len(canvas.intrusion_times) + 1
        /\ SubSeq(canvas'.intrusion_times, 1, Len(canvas.intrusion_times))
              = canvas.intrusion_times
        /\ alerts' = alerts + 1
        /\ IF ~model.collapsed
           THEN /\ last'.measured_now
                /\ last'.outcome \in MEASURE_OUTCOMES
                /\ last'.outcome = model'.collapsed_value
                /\ Pushed(canvas.values, canvas'.values, int_(last'.outcome))
                /\ Len(canvas'.times) = Len(canvas'.values)
           ELSE /\ ~last'.measured_now
                /\ last'.outcome = model.collapsed_value
                /\ canvas'.values = canvas.values
                /\ canvas'.times = canvas.times]_vars

\* C4 witness: the second intrusion on a fresh cell: it reports (False, v) and the
\* canvas holds two markers.
C4_Witness ==
    /\ last.op = "intrude_btn"
    /\ last.was_collapsed
    /\ ~last.measured_now
    /\ Len(canvas.intrusion_times) = 2
    /\ alerts = 1

\* C5: right after on_reset the cell is not collapsed and has no value, the canvas
\* has no markers and holds exactly one sample, the unknown one, taken at the
\* current time.
C5_ResetState ==
    last.op = "on_reset" =>
        /\ ~model.collapsed
        /\ model.collapsed_value = None
        /\ canvas.intrusion_times = <<>>
        /\ canvas.values = <<np_nan>>
        /\ canvas.times = <<_current_time(clock)>>

\* C5 witness: a reset of a collapsed cell after time has passed.
C5_Witness == last.op = "on_reset" /\ last.was_collapsed /\ clock > 0

\* C6 (the claim as stated): auto-intrusion is off initially, and its timer runs
\* exactly while the check box is checked. (on_auto_changed receives an int, which
\* py_eq never finds equal to Qt.CheckState.Checked: auto_timer.start is never
\* reached, and the auto_timer branch of timeout never runs.)
C6_AutoTimerFollowsCheckbox == auto_timer.active <=> auto_checkbox

\* C7 (the claim as stated): a change of the interval while the check box is
\* checked leaves the auto timer running with the new period.
C7_IntervalChangeRestarts ==
    [][(last'.op = "setValue" /\ auto_checkbox /\ interval_spin' # interval_spin) =>
        /\ auto_timer'.active
        /\ auto_timer'.interval = interval_spin' * 1000]_vars

\* C8 (the claim as stated): a sampling tick or an auto-intrusion never starts
\* while an operation has started and not returned.
C8_NoCallbackInsideOperation ==
    last.op \in {"_ui_tick", "auto_timer"} => last.depth = 0

C10_MeasureAppendsOne ==
    [][last'.op = "on_measure" =>
        /\ last'.outcome = model'.collapsed_value
        /\ Pushed(canvas.values, canvas'.values, int_(last'.outcome))
        /\ Pushed(canvas.times, canvas'.times, _current_time(clock))
        /\ canvas'.intrusion_times = canvas.intrusion_times]_vars

\* C10 witness: a measure of an already collapsed cell, with the canvas full of
\* samples of the collapsed value.
C10_Witness ==
    /\ last.op = "on_measure"
    /\ last.was_collapsed
    /\ Len(canvas.values) = max_points
    /\ \A i \in 1..Len(canvas.values) : canvas.values[i] = int_(model.collapsed_value)

\* C11: every sampling tick appends exactly one sample, taken at the current time,
\* whose value is the collapsed value of a collapsed cell and the unknown value
\* otherwise, and leaves the cell and the intrusion markers as they were.
C11_TickAppendsOne ==
    [][last'.op = "_ui_tick" =>
        /\ model' = model
        /\ canvas'.intrusion_times = canvas.intrusion_times
        /\ Pushed(canvas.values, canvas'.values,
                  IF model.collapsed THEN int_(model.collapsed_value) ELSE np_nan)
        /\ Pushed(canvas.times, canvas'.times, _current_time(clock))]_vars

\* C11 witness: a tick on a collapsed cell that appended the collapsed value, and
\* the cell still holds it.
C11_Witness ==
    /\ last.op = "_ui_tick"
    /\ last.was_collapsed
    /\ model.collapsed
    /\ canvas.values[Len(canvas.values)] = int_(model.collapsed_value)
    /\ canvas.values[1] = np_nan

\* C12 (the claim as stated, as far as the timer's state shows it): when the check
\* box is checked again right after having been unchecked, the auto timer is
\* started afresh with the configured interval, so its first firing is a full
\* interval away.
C12_ReenableRestartsTimer ==
    [][(/\ last.op = "on_auto_changed"
        /\ ~auto_checkbox
        /\ last'.op = "on_auto_changed"
        /\ auto_checkbox') =>
        /\ auto_timer'.active
        /\ auto_timer'.interval = interval_spin' * 1000]_vars

\* C13: every intrusion marker carries a binary value, never the unknown value;
\* the marker an intrusion records carries the value intrusion_attempt returned,
\* which is the new value of the cell when the intrusion caused the collapse and
\* the stored value when the cell was collapsed already.
C13_MarkersBinary ==
    /\ \A i \in 1..Len(canvas.intrusion_times) :
        canvas.intrusion_times[i][2] \in {0, 1}
    /\ last.op \in IntrusionOps =>
        /\ last.measured_now <=> ~last.was_collapsed
        /\ last.outcome = model.collapsed_value
        /\ canvas.intrusion_times[Len(canvas.intrusion_times)][2] = int_(last.outcome)

\* C13 witness: an intrusion on a collapsed cell recorded the stored value 1 next
\* to the marker of the intrusion that caused the collapse.
C13_Witness ==
    /\ last.op \in IntrusionOps
    /\ ~last.measured_now
    /\ model.collapsed_value = "1"
    /\ Len(canvas.intrusion_times) = 2
    /\ canvas.intrusion_times[1][2] = 1
    /\ canvas.intrusion_times[2][2] = 1

NonDecreasing(s) == \A i, j \in 1..Len(s) : i <= j => s[i] <= s[j]

\* C14: with a clock that never goes back, the samples held are in non-decreasing
\* timestamp order in every reachable state, and the sample a collapse-causing
\* intrusion appends is stamped no earlier than the marker of that intrusion.
C14_TimestampsOrdered ==
    /\ NonDecreasing(canvas.times)
    /\ (last.op \in IntrusionOps /\ last.measured_now) =>
        canvas.times[Len(canvas.times)]
            >= canvas.intrusion_times[Len(canvas.intrusion_times)][1]

\* C14 witness: a collapse-causing intrusion whose sample is stamped later than its
\* marker, in a buffer whose first sample is older still.
C14_Witness ==
    /\ last.op \in IntrusionOps
    /\ last.measured_now
    /\ canvas.times[Len(canvas.times)]
           > canvas.intrusion_times[Len(canvas.intrusion_times)][1]
    /\ canvas.times[1] < canvas.times[Len(canvas.times)]
    /\ Len(canvas.times) = max_points

\* C15: mark_intrusion adds exactly one marker after those already held and leaves
\* the samples alone; append, evicting or not, leaves the markers alone; only clear
\* empties them. So the markers held are the mark_intrusion calls since the last
\* clear, however many samples were appended, and may outnumber max_points.
C15_MarkersUnbounded ==
    [][/\ last'.op = "mark_intrusion" =>
            /\ canvas'.times = canvas.times
            /\ canvas'.values = canvas.values
            /\ Len(canvas'.intrusion_times) = Len(canvas.intrusion_times) + 1
            /\ SubSeq(canvas'.intrusion_times, 1, Len(canvas.intrusion_times))
                  = canvas.intrusion_times
       /\ last'.op = "append" => canvas'.intrusion_times = canvas.intrusion_times
       /\ last'.op = "clear" => canvas'.intrusion_times = <<>>]_vars

\* C15 witness: more markers than max_points are held, all of them since the last
\* clear, after appends that evicted samples.
C15_Witness ==
    /\ Len(canvas.intrusion_times) = max_points + 1
    /\ \A i \in 1..Len(canvas.intrusion_times) : canvas.intrusion_times[i][1] = i
    /\ Len(canvas.values) = max_points
    /\ Len(appended) > max_points
    /\ last.op = "append"

\* C16: the sampling timer is running, with its interval, in every reachable
\* state, and on_auto_changed, enabling or disabling, changes neither the cell nor
\* the canvas.
C16_SamplingTimerUntouched ==
    /\ [](ui_timer.active /\ ui_timer.interval = UiInterval)
    /\ [][/\ ui_timer' = ui_timer
          /\ last'.op = "on_auto_changed" => (model' = model /\ canvas' = canvas)]_vars

\* C16 witness: the check box was checked and unchecked again on a collapsed cell
\* with a marker recorded, and the sampling timer is still running.
C16_Witness ==
    /\ last.op = "on_auto_changed"
    /\ ~auto_checkbox
    /\ model.collapsed
    /\ Len(canvas.intrusion_times) > 0
    /\ ui_timer.active

\* C17: every known sample and every marker held carries the cell's current
\* collapsed value; an uncollapsed cell goes with unknown samples only and no
\* markers; and no unknown sample follows a known one.
C17_TimelineMatchesCell ==
    LET v == canvas.values
        m == canvas.intrusion_times
    IN  /\ \A i \in 1..Len(v) :
            v[i] # np_nan => (model.collapsed /\ v[i] = int_(model.collapsed_value))
        /\ \A i \in 1..Len(m) :
            model.collapsed /\ m[i][2] = int_(model.collapsed_value)
        /\ ~model.collapsed => (m = <<>> /\ \A i \in 1..Len(v) : v[i] = np_nan)
        /\ \A i, j \in 1..Len(v) : (i < j /\ v[i] # np_nan) => v[j] # np_nan

\* C17 witness: a collapsed cell whose buffer holds an unknown sample followed by
\* known ones, and two markers.
C17_Witness ==
    /\ model.collapsed
    /\ Len(canvas.values) = max_points
    /\ canvas.values[1] = np_nan
    /\ canvas.values[2] # np_nan
    /\ Len(canvas.intrusion_times) = 2
    /\ last.op = "time_passes"

\* C18 (the claim as stated): while the auto-intrusion check box is checked, every
\* reset is eventually followed by a state in which the cell is collapsed.
C18_ResetEventuallyCollapsed ==
    (last.op = "on_reset" /\ auto_checkbox) ~> (model.collapsed \/ ~auto_checkbox)

====
